---- MODULE Spec2Model ----
(***************************************************************************)
(* Model of the OpenRouter relay worker (src/src/index.ts): the fetch      *)
(* entry point, handleStream and the background copy task processStream.   *)
(*                                                                         *)
(* Text is modelled as a sequence of one-character strings, so that        *)
(* indexOf, slice, trim, startsWith, JSON.parse and JSON.stringify are     *)
(* computed character by character as the code computes them.              *)
(***************************************************************************)
EXTENDS Integers, Sequences, FiniteSets, TLC

(***************************************************************************)
(* Bounds of the model.                                                    *)
(***************************************************************************)
\* number of lines the upstream body carries at most
MaxLines == 3
\* largest number of characters one read of the upstream body delivers
MaxChunk == 16
\* number of lines of the upstream body when the whole handler is explored
MaxHandlerLines == 1
\* largest number of characters of a generated JSON text
MaxJsonLen == 4
\* number of times the copy loop is run over its own output
MaxPasses == 2

(***************************************************************************)
(* String primitives of the JavaScript runtime used by the source.         *)
(***************************************************************************)
LF == "\n"

\* characters String.prototype.trim removes (those that occur in the model)
WhiteSpace == {" ", "\t", "\r", "\n"}

\* buffer.indexOf(c): the first position of c in s (1-based), 0 when absent
RECURSIVE IndexFrom(_, _, _)
IndexFrom(s, c, i) ==
  IF i > Len(s) THEN 0 ELSE IF s[i] = c THEN i ELSE IndexFrom(s, c, i + 1)

IndexOf(s, c) == IndexFrom(s, c, 1)

\* line.trim()
RECURSIVE TrimStart(_, _)
TrimStart(s, i) == IF i <= Len(s) /\ s[i] \in WhiteSpace THEN TrimStart(s, i + 1) ELSE i

RECURSIVE TrimEnd(_, _)
TrimEnd(s, i) == IF i >= 1 /\ s[i] \in WhiteSpace THEN TrimEnd(s, i - 1) ELSE i

Trim(s) == SubSeq(s, TrimStart(s, 1), TrimEnd(s, Len(s)))

\* line.startsWith(p)
StartsWith(s, p) == Len(s) >= Len(p) /\ SubSeq(s, 1, Len(p)) = p

\* the SSE data prefix "data: " and the sentinel "[DONE]"
DataPrefix == <<"d", "a", "t", "a", ":", " ">>
Sentinel == <<"[", "D", "O", "N", "E", "]">>

(***************************************************************************)
(* JSON.parse and JSON.stringify, for JSON texts built from whitespace,    *)
(* unsigned integers, strings without escapes, arrays and objects.         *)
(* A parsed value is a tagged record; a parse result is                    *)
(* [ok, v, i] with i the position after the parsed text.                   *)
(***************************************************************************)
Digits == <<"0", "1", "2", "3", "4", "5", "6", "7", "8", "9">>
IsDigit(c) == \E d \in 1..10 : Digits[d] = c
DigitVal(c) == (CHOOSE d \in 1..10 : Digits[d] = c) - 1
JsonWs == {" ", "\t", "\r", "\n"}
Fail == [ok |-> FALSE, v |-> [t |-> "none"], i |-> 0]

\* the position of the first non-whitespace character at or after i
RECURSIVE SkipWs(_, _)
SkipWs(s, i) == IF i <= Len(s) /\ s[i] \in JsonWs THEN SkipWs(s, i + 1) ELSE i

\* the position after the run of digits starting at i
RECURSIVE DigitsEnd(_, _)
DigitsEnd(s, i) == IF i <= Len(s) /\ IsDigit(s[i]) THEN DigitsEnd(s, i + 1) ELSE i

\* the number written by the digits s[i..j-1]
RECURSIVE DigitsToNat(_, _, _)
DigitsToNat(s, i, j) ==
  IF j <= i THEN 0 ELSE DigitsToNat(s, i, j - 1) * 10 + DigitVal(s[j - 1])

\* the decimal digits of n
RECURSIVE NatToDigits(_)
NatToDigits(n) ==
  IF n < 10 THEN <<Digits[n + 1]>>
  ELSE Append(NatToDigits(n \div 10), Digits[(n % 10) + 1])

ParseNumber(s, i) ==
  LET j == DigitsEnd(s, i)
  IN IF j = i \/ (s[i] = "0" /\ j > i + 1) THEN Fail
     ELSE [ok |-> TRUE, v |-> [t |-> "num", n |-> DigitsToNat(s, i, j)], i |-> j]

\* a string starts at the quote s[i]; no escape or control character inside
ParseString(s, i) ==
  LET rest == SubSeq(s, i + 1, Len(s))
      q == IndexOf(rest, "\"")
  IN IF i > Len(s) \/ s[i] # "\"" \/ q = 0 THEN Fail
     ELSE IF \E k \in 1..(q - 1) : rest[k] \in {"\\", "\n", "\r", "\t"} THEN Fail
     ELSE [ok |-> TRUE, v |-> [t |-> "str", s |-> SubSeq(rest, 1, q - 1)], i |-> i + q + 1]

\* object members after a repeated key: the last value wins, the first position stays
SetMember(ms, k, v) ==
  IF \E x \in 1..Len(ms) : ms[x].k = k
    THEN [x \in 1..Len(ms) |-> IF ms[x].k = k THEN [k |-> k, v |-> v] ELSE ms[x]]
    ELSE Append(ms, [k |-> k, v |-> v])

RECURSIVE ParseValue(_, _)
RECURSIVE ParseElements(_, _, _)
RECURSIVE ParseMembers(_, _, _)

\* the elements of an array after "[" or ",": value ("," value)* "]"
ParseElements(s, i, acc) ==
  LET r == ParseValue(s, i)
  IN IF ~r.ok \/ r.i > Len(s) THEN Fail
     ELSE IF s[r.i] = "," THEN ParseElements(s, r.i + 1, Append(acc, r.v))
     ELSE IF s[r.i] = "]"
       THEN [ok |-> TRUE, v |-> [t |-> "arr", items |-> Append(acc, r.v)], i |-> r.i + 1]
     ELSE Fail

\* the members of an object after "{" or ",": string ":" value ("," ...)* "}"
ParseMembers(s, i, acc) ==
  LET k == ParseString(s, SkipWs(s, i))
      c == IF k.ok THEN SkipWs(s, k.i) ELSE 0
      r == IF k.ok /\ c <= Len(s) /\ s[c] = ":" THEN ParseValue(s, c + 1) ELSE Fail
  IN IF ~r.ok \/ r.i > Len(s) THEN Fail
     ELSE IF s[r.i] = "," THEN ParseMembers(s, r.i + 1, SetMember(acc, k.v.s, r.v))
     ELSE IF s[r.i] = "}"
       THEN [ok |-> TRUE, v |-> [t |-> "obj", members |-> SetMember(acc, k.v.s, r.v)],
             i |-> r.i + 1]
     ELSE Fail

\* one JSON value with the whitespace around it
ParseValue(s, i) ==
  LET j == SkipWs(s, i)
      r == IF j > Len(s) THEN Fail
           ELSE IF IsDigit(s[j]) THEN ParseNumber(s, j)
           ELSE IF s[j] = "\"" THEN ParseString(s, j)
           ELSE IF s[j] = "["
             THEN IF SkipWs(s, j + 1) <= Len(s) /\ s[SkipWs(s, j + 1)] = "]"
                    THEN [ok |-> TRUE, v |-> [t |-> "arr", items |-> <<>>],
                          i |-> SkipWs(s, j + 1) + 1]
                    ELSE ParseElements(s, j + 1, <<>>)
           ELSE IF s[j] = "{"
             THEN IF SkipWs(s, j + 1) <= Len(s) /\ s[SkipWs(s, j + 1)] = "}"
                    THEN [ok |-> TRUE, v |-> [t |-> "obj", members |-> <<>>],
                          i |-> SkipWs(s, j + 1) + 1]
                    ELSE ParseMembers(s, j + 1, <<>>)
           ELSE Fail
  IN IF r.ok THEN [r EXCEPT !.i = SkipWs(s, r.i)] ELSE Fail

\* JSON.parse(data): ok is FALSE where the code's JSON.parse throws
JSONparse(s) ==
  LET r == ParseValue(s, 1)
  IN IF r.ok /\ r.i = Len(s) + 1 THEN r ELSE Fail

\* an object key that is an array index: own keys of that form come first, ascending
IsIndexKey(k) ==
  /\ Len(k) > 0
  /\ \A x \in 1..Len(k) : IsDigit(k[x])
  /\ (k[1] = "0" => Len(k) = 1)

\* the members in the order JSON.stringify enumerates them
OrderedMembers(ms) ==
  LET idx == {x \in 1..Len(ms) : IsIndexKey(ms[x].k)}
      Before(x, y) ==
        IF x \in idx /\ y \in idx
          THEN DigitsToNat(ms[x].k, 1, Len(ms[x].k) + 1) < DigitsToNat(ms[y].k, 1, Len(ms[y].k) + 1)
        ELSE IF x \in idx THEN TRUE
        ELSE IF y \in idx THEN FALSE
        ELSE x < y
      Rank(x) == 1 + Cardinality({y \in 1..Len(ms) : Before(y, x)})
  IN [p \in 1..Len(ms) |-> ms[CHOOSE x \in 1..Len(ms) : Rank(x) = p]]

RECURSIVE JSONstringify(_)
RECURSIVE JoinItems(_, _)
RECURSIVE JoinMembers(_, _)

JoinItems(items, x) ==
  IF x > Len(items) THEN <<>>
  ELSE (IF x > 1 THEN <<",">> ELSE <<>>) \o JSONstringify(items[x]) \o JoinItems(items, x + 1)

JoinMembers(ms, x) ==
  IF x > Len(ms) THEN <<>>
  ELSE (IF x > 1 THEN <<",">> ELSE <<>>) \o <<"\"">> \o ms[x].k \o <<"\"", ":">>
       \o JSONstringify(ms[x].v) \o JoinMembers(ms, x + 1)

\* JSON.stringify(parsed)
JSONstringify(v) ==
  IF v.t = "num" THEN NatToDigits(v.n)
  ELSE IF v.t = "str" THEN <<"\"">> \o v.s \o <<"\"">>
  ELSE IF v.t = "arr" THEN <<"[">> \o JoinItems(v.items, 1) \o <<"]">>
  ELSE <<"{">> \o JoinMembers(OrderedMembers(v.members), 1) \o <<"}">>


(***************************************************************************)
(* Property values of the request body and the object operations of        *)
(* lines 62-68 (destructuring with rest, object literal with spread).      *)
(***************************************************************************)
Undefined == "undefined"
MODEL == "google/gemini-2.0-pro-exp-02-05:free"
TrueValue == "true"
EmptyObject == [k \in {} |-> Undefined]

\* a presence test that takes only undefined for absent
FalsyOnlyUndefined(v) == v = Undefined

\* !v for the values of the model: undefined and the empty string are falsy
Falsy(v) == v \in {Undefined, ""}

\* a ?? b: only undefined gives way to the default
OrElseNullish(a, b) == IF a = Undefined THEN b ELSE a

\* a || b
OrElse(a, b) == IF Falsy(a) THEN b ELSE a

\* o.k, undefined when o has no own property k
Get(o, k) == IF k \in DOMAIN o THEN o[k] ELSE Undefined

\* { ...o, k: v }
Assign(o, k, v) == [x \in DOMAIN o \cup {k} |-> IF x = k THEN v ELSE o[x]]

\* { ...o, ...src }: the properties of src win
Spread(o, src) ==
  [x \in DOMAIN o \cup DOMAIN src |-> IF x \in DOMAIN src THEN src[x] ELSE o[x]]

\* a payload built without the rest of the body
RestOfBodyDropped(requestBody) == EmptyObject

\* const { messages, model: requestModel, ...restOfBody } = requestBody
RestOfBody(requestBody) ==
  [x \in DOMAIN requestBody \ {"messages", "model"} |-> requestBody[x]]

\* the object literal of lines 63-68, its properties written in source order
Payload(requestBody) ==
  LET withModel == Assign(EmptyObject, "model", OrElse(Get(requestBody, "model"), MODEL))
      withMessages == Assign(withModel, "messages", Get(requestBody, "messages"))
      withStream == Assign(withMessages, "stream", TrueValue)
  IN Spread(withStream, RestOfBody(requestBody))

\* JSON.stringify(payload) of line 85 leaves out the undefined properties
SentBody(payload) ==
  [x \in {k \in DOMAIN payload : payload[k] # Undefined} |-> payload[x]]

(***************************************************************************)
(* Inputs: the requests, the environment and the upstream's behaviour.     *)
(***************************************************************************)
Methods == {"POST", "GET", "PUT"}
ApiKeys == {Undefined, "", "sk-key"}
Keys == {"model", "messages", "stream", "temperature"}
FieldValues(k) ==
  CASE k = "model" -> {"", "x"}
    [] k = "messages" -> {"msgs"}
    [] k = "stream" -> {"false", TrueValue}
    [] k = "temperature" -> {"1"}
AllFieldValues == UNION {FieldValues(k) : k \in Keys}
BodyObjects ==
  UNION {{f \in [D -> AllFieldValues] : \A k \in D : f[k] \in FieldValues(k)} : D \in SUBSET Keys}
\* a request body: not JSON, the JSON text null, or a JSON object
Bodies ==
  {[kind |-> "invalid", fields |-> EmptyObject], [kind |-> "null", fields |-> EmptyObject]}
    \cup {[kind |-> "object", fields |-> f] : f \in BodyObjects}

\* non-success statuses and error texts of the upstream
ErrorStatuses == {429, 500}
ErrorTexts == {"rate limited", ""}

\* lines the upstream body is made of (without their line feed)
LineValidCR == <<"d", "a", "t", "a", ":", " ", "1", "0", "\r">>
LineValidObj == <<"d", "a", "t", "a", ":", " ", "{", "\"", "a", "\"", ":", " ", "2", "}">>
LineSentinel == <<"d", "a", "t", "a", ":", " ", "[", "D", "O", "N", "E", "]">>
LineMalformed == <<"d", "a", "t", "a", ":", " ", "x">>
LineBlank == <<>>
Menu == {LineValidCR, LineValidObj, LineSentinel, LineMalformed, LineBlank}
\* text the upstream may leave without a terminating line feed
Tails == {<<>>, <<"d", "a", "t", "a", ":", " ", "7">>}

\* all texts of at most n terminated lines
RECURSIVE TextsOf(_)
TextsOf(n) ==
  IF n = 0 THEN {<<>>}
  ELSE {<<>>} \cup {l \o <<LF>> \o t : l \in Menu, t \in TextsOf(n - 1)}

\* all texts of at most MaxLines lines, the last of which may be unterminated
UpstreamTexts ==
  TextsOf(MaxLines) \cup {t \o tail : t \in TextsOf(MaxLines - 1), tail \in Tails}
HandlerTexts == TextsOf(MaxHandlerLines)


(***************************************************************************)
(* State.                                                                  *)
(***************************************************************************)
VARIABLES
  method,        \* request.method
  apiKey,        \* env.OPENROUTER_API_KEY
  body,          \* the request body as request.json() will find it
  pc,            \* where the handler is: fetch, json, upstream, text, returned, threw
  keyRead,       \* env.OPENROUTER_API_KEY has been read (line 43)
  bodyRead,      \* request.json() has been called (line 55)
  calls,         \* the bodies of the upstream calls made so far (line 77)
  upResp,        \* status and error text of a non-success upstream response
  upOutcome,     \* how the upstream call ended: none, threw, notok, nobody, body
  response,      \* the Response the handler returned; status 0: none yet
  writerState,   \* the outbound stream: none, open, errored, closed
  taskPc,        \* where processStream is: idle, read, lines, write, done
  upText,        \* text the upstream body has still to deliver
  received,      \* all text read from the upstream body so far
  buffer,        \* the variable buffer (line 101)
  pending,       \* the frame of the write being awaited (line 130)
  written,       \* the frames the outbound stream has accepted, in order
  attempted,     \* the frames writer.write was called with, in order
  writeErrors,   \* number of writes that raised an error
  readDone,      \* reader.read() has signalled done
  readFailed,    \* reader.read() has raised an error
  closeCalls,    \* number of calls of writer.close
  abortCalls,    \* number of calls of writer.abort
  abortReason,   \* the failure the stream was aborted with: none, read, close, write
  probe,         \* an upstream text given to the copy loop on its own
  passes         \* the output streams of the successive passes of the copy loop over probe

reqVars == <<method, apiKey, body>>
handlerVars == <<pc, keyRead, bodyRead, calls, upResp, upOutcome, response>>
taskVars == <<taskPc, upText, received, buffer, pending, written, attempted,
              writeErrors, readDone, readFailed, closeCalls, abortCalls, abortReason>>
probeVars == <<probe, passes>>
vars == <<reqVars, handlerVars, writerState, taskVars, probeVars>>

NoResponse == [status |-> 0, body |-> <<>>]
NoUpstream == [status |-> 0, error |-> ""]

InitState ==
  /\ pc = "fetch"
  /\ keyRead = FALSE
  /\ bodyRead = FALSE
  /\ calls = <<>>
  /\ upResp = NoUpstream
  /\ upOutcome = "none"
  /\ response = NoResponse
  /\ writerState = "none"
  /\ taskPc = "idle"
  /\ upText = <<>>
  /\ received = <<>>
  /\ buffer = <<>>
  /\ pending = <<>>
  /\ written = <<>>
  /\ attempted = <<>>
  /\ writeErrors = 0
  /\ readDone = FALSE
  /\ readFailed = FALSE
  /\ closeCalls = 0
  /\ abortCalls = 0
  /\ abortReason = "none"

\* the copy loop is not run on its own
NoProbe == probe = <<>> /\ passes = <<>>

\* any request, any environment
Init ==
  /\ method \in Methods
  /\ apiKey \in ApiKeys
  /\ body \in Bodies
  /\ InitState
  /\ NoProbe

(***************************************************************************)
(* The handler: fetch (lines 161-172) and handleStream (lines 38-158).     *)
(***************************************************************************)
Return(status, text) ==
  /\ response' = [status |-> status, body |-> text]
  /\ pc' = "returned"

\* lines 167-169
MethodNotAllowed ==
  /\ pc = "fetch"
  /\ method # "POST"
  /\ Return(405, <<"Method not allowed">>)
  /\ UNCHANGED <<reqVars, probeVars, keyRead, bodyRead, calls, upResp, upOutcome, writerState, taskVars>>

\* lines 43-50
MissingKey ==
  /\ pc = "fetch"
  /\ method = "POST"
  /\ keyRead' = TRUE
  /\ Falsy(apiKey)
  /\ Return(401, <<"Missing API key">>)
  /\ UNCHANGED <<reqVars, probeVars, bodyRead, calls, upResp, upOutcome, writerState, taskVars>>

\* reading the body without the method check
ReadBodyAnyMethod ==
  /\ pc = "fetch"
  /\ keyRead' = TRUE
  /\ ~Falsy(apiKey)
  /\ bodyRead' = TRUE
  /\ pc' = "json"
  /\ UNCHANGED <<reqVars, probeVars, calls, upResp, upOutcome, response, writerState, taskVars>>

\* lines 43-55: the key is there, request.json() is called and awaited
ReadBody ==
  /\ pc = "fetch"
  /\ method = "POST"
  /\ keyRead' = TRUE
  /\ ~Falsy(apiKey)
  /\ bodyRead' = TRUE
  /\ pc' = "json"
  /\ UNCHANGED <<reqVars, probeVars, calls, upResp, upOutcome, response, writerState, taskVars>>

\* a body that is not JSON answered like an internal failure
BodyInvalidGeneric500 ==
  /\ pc = "json"
  /\ body.kind = "invalid"
  /\ Return(500, <<"Error making request to OpenRouter">>)
  /\ UNCHANGED <<reqVars, probeVars, keyRead, bodyRead, calls, upResp, upOutcome, writerState, taskVars>>

\* lines 56-59: request.json() rejects
BodyInvalid ==
  /\ pc = "json"
  /\ body.kind = "invalid"
  /\ Return(400, <<"Invalid request body">>)
  /\ UNCHANGED <<reqVars, probeVars, keyRead, bodyRead, calls, upResp, upOutcome, writerState, taskVars>>

\* line 62: destructuring null throws outside every try block
BodyNull ==
  /\ pc = "json"
  /\ body.kind = "null"
  /\ pc' = "threw"
  /\ UNCHANGED <<reqVars, probeVars, keyRead, bodyRead, calls, upResp, upOutcome, response, writerState, taskVars>>

\* lines 62-86: the payload is built, the outbound stream created, fetch called
SendUpstream ==
  /\ pc = "json"
  /\ body.kind = "object"
  /\ writerState' = "open"
  /\ calls' = Append(calls, SentBody(Payload(body.fields)))
  /\ pc' = "upstream"
  /\ UNCHANGED <<reqVars, probeVars, keyRead, bodyRead, upResp, upOutcome, response, taskVars>>

\* a rejected fetch reported on the outbound stream as well
FetchThrowsWritesError ==
  /\ pc = "upstream"
  /\ Return(500, <<"Error making request to OpenRouter">>)
  /\ attempted' = Append(attempted, DataPrefix \o <<"0", LF, LF>>)
  /\ upOutcome' = "threw"
  /\ UNCHANGED <<reqVars, probeVars, keyRead, bodyRead, calls, upResp, writerState, taskPc, upText,
                 received, buffer, pending, written, writeErrors, readDone, readFailed,
                 closeCalls, abortCalls, abortReason>>

\* lines 77, 154-157: fetch rejects
FetchThrows ==
  /\ pc = "upstream"
  /\ upOutcome' = "threw"
  /\ Return(500, <<"Error making request to OpenRouter">>)
  /\ UNCHANGED <<reqVars, probeVars, keyRead, bodyRead, calls, upResp, writerState, taskVars>>

\* lines 88-89: the response is not ok, response.text() is awaited
UpstreamNotOk ==
  /\ pc = "upstream"
  /\ \E s \in ErrorStatuses, e \in ErrorTexts : upResp' = [status |-> s, error |-> e]
  /\ upOutcome' = "notok"
  /\ pc' = "text"
  /\ UNCHANGED <<reqVars, probeVars, keyRead, bodyRead, calls, response, writerState, taskVars>>

\* an upstream failure answered with a fixed status
ReturnUpstreamErrorFixedStatus ==
  /\ pc = "text"
  /\ Return(500, <<"OpenRouter API error: ", upResp.error>>)
  /\ UNCHANGED <<reqVars, probeVars, keyRead, bodyRead, calls, upResp, upOutcome, writerState, taskVars>>

\* lines 89-91
ReturnUpstreamError ==
  /\ pc = "text"
  /\ Return(upResp.status, <<"OpenRouter API error: ", upResp.error>>)
  /\ UNCHANGED <<reqVars, probeVars, keyRead, bodyRead, calls, upResp, upOutcome, writerState, taskVars>>

\* a response without a body relayed as an empty stream
NoBodyRelaysNothing ==
  /\ pc = "upstream"
  /\ Return(200, <<"text/event-stream">>)
  /\ upResp' = [status |-> 200, error |-> ""]
  /\ upOutcome' = "nobody"
  /\ writerState' = "closed"
  /\ UNCHANGED <<reqVars, probeVars, keyRead, bodyRead, calls, taskVars>>

\* lines 94-96, 154-157: the response is ok and has no body
NoBody ==
  /\ pc = "upstream"
  /\ Return(500, <<"Error making request to OpenRouter">>)
  /\ upResp' = [status |-> 200, error |-> ""]
  /\ upOutcome' = "nobody"
  /\ UNCHANGED <<reqVars, probeVars, keyRead, bodyRead, calls, writerState, taskVars>>

\* the handler awaiting the copy before it returns
StartStreamAwaitsCopy(texts) ==
  /\ pc = "upstream"
  /\ \E text \in texts : upText' = text
  /\ taskPc' = "read"
  /\ upResp' = [status |-> 200, error |-> ""]
  /\ upOutcome' = "body"
  /\ pc' = "copying"
  /\ UNCHANGED <<reqVars, probeVars, keyRead, bodyRead, calls, response, writerState, received, buffer,
                 pending, written, attempted, writeErrors, readDone, readFailed, closeCalls,
                 abortCalls, abortReason>>

\* lines 99-153: processStream runs to its first reader.read(), the handler
\* returns the streaming response in the same turn
StartStream(texts) ==
  /\ pc = "upstream"
  /\ \E text \in texts : upText' = text
  /\ taskPc' = "read"
  /\ upResp' = [status |-> 200, error |-> ""]
  /\ upOutcome' = "body"
  /\ Return(200, <<"text/event-stream">>)
  /\ UNCHANGED <<reqVars, probeVars, keyRead, bodyRead, calls, writerState, received, buffer, pending,
                 written, attempted, writeErrors, readDone, readFailed, closeCalls,
                 abortCalls, abortReason>>


(***************************************************************************)
(* The copy task processStream (lines 104-141) and the client's side of    *)
(* the outbound stream.                                                    *)
(***************************************************************************)
\* line 117: buffer.indexOf("\n") !== -1
HasLine(b) == IndexOf(b, LF) # 0

\* where the task goes on: the inner loop while a line is left, else the next read
AfterLine(b) == IF HasLine(b) THEN "lines" ELSE "read"

\* line 118: buffer.slice(0, lineEnd).trim()
FirstLine(b) == Trim(SubSeq(b, 1, IndexOf(b, LF) - 1))

\* line 119: buffer.slice(lineEnd + 1)
RestOfBuffer(b) == SubSeq(b, IndexOf(b, LF) + 1, Len(b))

\* line 121
IsDataLine(line) == StartsWith(line, DataPrefix)

\* line 122: line.slice(6)
DataOf(line) == SubSeq(line, Len(DataPrefix) + 1, Len(line))

\* line 124
IsSentinel(data) == data = Sentinel

\* JSON.stringify applied to the text of the payload instead of its value
FrameDoubleEncoded(data) ==
  LET Esc(c) == IF c \in {"\"", "\\"} THEN <<"\\", c>> ELSE <<c>>
      Quoted[i \in 0..Len(data)] == IF i = 0 THEN <<>> ELSE Quoted[i - 1] \o Esc(data[i])
  IN DataPrefix \o <<"\"">> \o Quoted[Len(data)] \o <<"\"", LF, LF>>

\* line 130: `data: ${JSON.stringify(parsed)}\n\n`
Frame(data) == DataPrefix \o JSONstringify(JSONparse(data).v) \o <<LF, LF>>

\* a chunk that replaces the buffer instead of being appended to it
ReadChunkReplacesBuffer ==
  /\ taskPc = "read"
  /\ upText # <<>>
  /\ \E n \in 1..MaxChunk :
       /\ n <= Len(upText)
       /\ buffer' = SubSeq(upText, 1, n)
       /\ received' = received \o SubSeq(upText, 1, n)
       /\ upText' = SubSeq(upText, n + 1, Len(upText))
  /\ taskPc' = AfterLine(buffer')
  /\ UNCHANGED <<reqVars, probeVars, handlerVars, writerState, pending, written, attempted,
                 writeErrors, readDone, readFailed, closeCalls, abortCalls, abortReason>>

\* lines 107, 113: a read delivers the next characters of the upstream body
ReadChunk ==
  /\ taskPc = "read"
  /\ upText # <<>>
  /\ \E n \in 1..MaxChunk :
       /\ n <= Len(upText)
       /\ buffer' = buffer \o SubSeq(upText, 1, n)
       /\ received' = received \o SubSeq(upText, 1, n)
       /\ upText' = SubSeq(upText, n + 1, Len(upText))
  /\ taskPc' = AfterLine(buffer')
  /\ UNCHANGED <<reqVars, probeVars, handlerVars, writerState, pending, written, attempted,
                 writeErrors, readDone, readFailed, closeCalls, abortCalls, abortReason>>

\* the rest of the buffer taken for a last line when the read signals done
ReadDoneFlushesBuffer ==
  /\ taskPc = "read"
  /\ upText = <<>>
  /\ readDone' = TRUE
  /\ closeCalls' = closeCalls + 1
  /\ IF IsDataLine(Trim(buffer)) /\ JSONparse(DataOf(Trim(buffer))).ok
       THEN /\ attempted' = Append(attempted, Frame(DataOf(Trim(buffer))))
            /\ written' = IF writerState = "open" THEN Append(written, Frame(DataOf(Trim(buffer))))
                          ELSE written
       ELSE UNCHANGED <<attempted, written>>
  /\ buffer' = <<>>
  /\ IF writerState = "open"
       THEN /\ writerState' = "closed"
            /\ UNCHANGED <<abortCalls, abortReason>>
       ELSE /\ abortCalls' = abortCalls + 1
            /\ abortReason' = "close"
            /\ UNCHANGED writerState
  /\ taskPc' = "done"
  /\ UNCHANGED <<reqVars, probeVars, handlerVars, upText, received, pending, writeErrors, readFailed>>

\* the loop going on after close for want of the break
ReadDoneKeepsReading ==
  /\ taskPc = "read"
  /\ upText = <<>>
  /\ readDone' = TRUE
  /\ closeCalls' = closeCalls + 1
  /\ IF writerState = "open"
       THEN /\ writerState' = "closed"
            /\ UNCHANGED <<abortCalls, abortReason, taskPc>>
       ELSE /\ abortCalls' = abortCalls + 1
            /\ abortReason' = "close"
            /\ taskPc' = "done"
            /\ UNCHANGED writerState
  /\ UNCHANGED <<reqVars, probeVars, handlerVars, upText, received, buffer, pending, written,
                 attempted, writeErrors, readFailed>>

\* the loop left on done without closing the outbound stream
ReadDoneWithoutClose ==
  /\ taskPc = "read"
  /\ upText = <<>>
  /\ readDone' = TRUE
  /\ taskPc' = "done"
  /\ UNCHANGED <<reqVars, probeVars, handlerVars, writerState, upText, received, buffer, pending,
                 written, attempted, writeErrors, readFailed, closeCalls, abortCalls,
                 abortReason>>

\* lines 108-111, 137-140: the read signals done and writer.close() is called;
\* close rejects on an errored stream, which the outer catch answers with abort
ReadDone ==
  /\ taskPc = "read"
  /\ upText = <<>>
  /\ readDone' = TRUE
  /\ closeCalls' = closeCalls + 1
  /\ IF writerState = "open"
       THEN /\ writerState' = "closed"
            /\ UNCHANGED <<abortCalls, abortReason>>
       ELSE /\ abortCalls' = abortCalls + 1
            /\ abortReason' = "close"
            /\ UNCHANGED writerState
  /\ taskPc' = "done"
  /\ UNCHANGED <<reqVars, probeVars, handlerVars, upText, received, buffer, pending, written,
                 attempted, writeErrors, readFailed>>

\* a failed read taken for the end of the upstream body
ReadErrorClosesStream ==
  /\ taskPc = "read"
  /\ readFailed' = TRUE
  /\ closeCalls' = closeCalls + 1
  /\ writerState' = IF writerState = "open" THEN "closed" ELSE writerState
  /\ taskPc' = "done"
  /\ UNCHANGED <<reqVars, probeVars, handlerVars, upText, received, buffer, pending, written,
                 attempted, writeErrors, readDone, abortCalls, abortReason>>

\* lines 107, 137-140: the read raises an error, the outer catch aborts
ReadError ==
  /\ taskPc = "read"
  /\ readFailed' = TRUE
  /\ abortCalls' = abortCalls + 1
  /\ abortReason' = "read"
  /\ writerState' = IF writerState = "open" THEN "errored" ELSE writerState
  /\ taskPc' = "done"
  /\ UNCHANGED <<reqVars, probeVars, handlerVars, upText, received, buffer, pending, written,
                 attempted, writeErrors, readDone, closeCalls>>

\* lines 117-121: a line that does not start with the data prefix
SkipLine ==
  /\ taskPc = "lines"
  /\ ~IsDataLine(FirstLine(buffer))
  /\ buffer' = RestOfBuffer(buffer)
  /\ taskPc' = AfterLine(buffer')
  /\ UNCHANGED <<reqVars, probeVars, handlerVars, writerState, upText, received, pending, written,
                 attempted, writeErrors, readDone, readFailed, closeCalls, abortCalls,
                 abortReason>>

\* the sentinel taken for the end of the stream
DropSentinelEndsRelay ==
  /\ taskPc = "lines"
  /\ IsDataLine(FirstLine(buffer))
  /\ IsSentinel(DataOf(FirstLine(buffer)))
  /\ buffer' = RestOfBuffer(buffer)
  /\ closeCalls' = closeCalls + 1
  /\ writerState' = IF writerState = "open" THEN "closed" ELSE writerState
  /\ taskPc' = "done"
  /\ UNCHANGED <<reqVars, probeVars, handlerVars, upText, received, pending, written, attempted,
                 writeErrors, readDone, readFailed, abortCalls, abortReason>>

\* lines 117-126: the sentinel
DropSentinel ==
  /\ taskPc = "lines"
  /\ IsDataLine(FirstLine(buffer))
  /\ IsSentinel(DataOf(FirstLine(buffer)))
  /\ buffer' = RestOfBuffer(buffer)
  /\ taskPc' = AfterLine(buffer')
  /\ UNCHANGED <<reqVars, probeVars, handlerVars, writerState, upText, received, pending, written,
                 attempted, writeErrors, readDone, readFailed, closeCalls, abortCalls,
                 abortReason>>

\* a parse error left to the outer catch
DropMalformedAborts ==
  /\ taskPc = "lines"
  /\ IsDataLine(FirstLine(buffer))
  /\ ~IsSentinel(DataOf(FirstLine(buffer)))
  /\ ~JSONparse(DataOf(FirstLine(buffer))).ok
  /\ buffer' = RestOfBuffer(buffer)
  /\ abortCalls' = abortCalls + 1
  /\ abortReason' = "parse"
  /\ writerState' = IF writerState = "open" THEN "errored" ELSE writerState
  /\ taskPc' = "done"
  /\ UNCHANGED <<reqVars, probeVars, handlerVars, upText, received, pending, written, attempted,
                 writeErrors, readDone, readFailed, closeCalls>>

\* lines 117-133: JSON.parse throws, the inner catch logs it
DropMalformed ==
  /\ taskPc = "lines"
  /\ IsDataLine(FirstLine(buffer))
  /\ ~IsSentinel(DataOf(FirstLine(buffer)))
  /\ ~JSONparse(DataOf(FirstLine(buffer))).ok
  /\ buffer' = RestOfBuffer(buffer)
  /\ taskPc' = AfterLine(buffer')
  /\ UNCHANGED <<reqVars, probeVars, handlerVars, writerState, upText, received, pending, written,
                 attempted, writeErrors, readDone, readFailed, closeCalls, abortCalls,
                 abortReason>>

\* lines 117-130: the payload parses, writer.write is called and awaited
ForwardLine ==
  /\ taskPc = "lines"
  /\ IsDataLine(FirstLine(buffer))
  /\ ~IsSentinel(DataOf(FirstLine(buffer)))
  /\ JSONparse(DataOf(FirstLine(buffer))).ok
  /\ buffer' = RestOfBuffer(buffer)
  /\ pending' = Frame(DataOf(FirstLine(buffer)))
  /\ attempted' = Append(attempted, pending')
  /\ taskPc' = "write"
  /\ UNCHANGED <<reqVars, probeVars, handlerVars, writerState, upText, received, written, writeErrors,
                 readDone, readFailed, closeCalls, abortCalls, abortReason>>

\* a chunk that overtakes the ones written before it
WriteResolveOutOfOrder ==
  /\ taskPc = "write"
  /\ writerState = "open"
  /\ written' = <<pending>> \o written
  /\ pending' = <<>>
  /\ taskPc' = AfterLine(buffer)
  /\ UNCHANGED <<reqVars, probeVars, handlerVars, writerState, upText, received, buffer, attempted,
                 writeErrors, readDone, readFailed, closeCalls, abortCalls, abortReason>>

\* line 130: the client takes the chunk, the write resolves
WriteResolve ==
  /\ taskPc = "write"
  /\ writerState = "open"
  /\ written' = Append(written, pending)
  /\ pending' = <<>>
  /\ taskPc' = AfterLine(buffer)
  /\ UNCHANGED <<reqVars, probeVars, handlerVars, writerState, upText, received, buffer, attempted,
                 writeErrors, readDone, readFailed, closeCalls, abortCalls, abortReason>>

\* lines 130-133: the write rejects; the catch around JSON.parse and the
\* write takes the error, logs it and the inner loop goes on
WriteReject ==
  /\ taskPc = "write"
  /\ writerState = "errored"
  /\ writeErrors' = writeErrors + 1
  /\ pending' = <<>>
  /\ taskPc' = AfterLine(buffer)
  /\ UNCHANGED <<reqVars, probeVars, handlerVars, writerState, upText, received, buffer, written,
                 attempted, readDone, readFailed, closeCalls, abortCalls, abortReason>>

\* the client goes away: the transport errors the outbound stream
ClientDisconnect ==
  /\ response.status = 200
  /\ writerState = "open"
  /\ writerState' = "errored"
  /\ UNCHANGED <<reqVars, probeVars, handlerVars, taskVars>>

(***************************************************************************)
(* Specifications.                                                         *)
(***************************************************************************)
Handler ==
  \/ MethodNotAllowed
  \/ MissingKey
  \/ ReadBody
  \/ BodyInvalid
  \/ BodyNull
  \/ SendUpstream
  \/ FetchThrows
  \/ UpstreamNotOk
  \/ ReturnUpstreamError
  \/ NoBody

CopyTask ==
  \/ ReadChunk
  \/ ReadDone
  \/ ReadError
  \/ SkipLine
  \/ DropSentinel
  \/ DropMalformed
  \/ ForwardLine
  \/ WriteResolve
  \/ WriteReject
  \/ ClientDisconnect

\* the whole handler, any request, a short upstream body
Next ==
  \/ Handler
  \/ StartStream(HandlerTexts)
  \/ CopyTask

Spec == Init /\ [][Next]_vars

\* requests, one for every way through the handler
RelayBodies ==
  {[kind |-> "invalid", fields |-> EmptyObject], [kind |-> "null", fields |-> EmptyObject],
   [kind |-> "object", fields |-> [messages |-> "msgs"]]}

InitRelay ==
  /\ method \in {"POST", "GET"}
  /\ apiKey \in {Undefined, "sk-key"}
  /\ body \in RelayBodies
  /\ InitState
  /\ NoProbe

\* the relay of any upstream body of at most MaxLines lines and a tail
NextRelay ==
  \/ Handler
  \/ StartStream(UpstreamTexts)
  \/ CopyTask

SpecRelay == InitRelay /\ [][NextRelay]_vars


(***************************************************************************)
(* The copy loop as a function of a whole upstream text, and its           *)
(* specification over generated JSON texts.                                *)
(***************************************************************************)
\* lines 117-135 run over a buffer: the frames written, in order
RECURSIVE CopyLines(_)
CopyLines(b) ==
  IF ~HasLine(b) THEN <<>>
  ELSE LET line == FirstLine(b)
           data == DataOf(line)
       IN (IF IsDataLine(line) /\ ~IsSentinel(data) /\ JSONparse(data).ok
             THEN <<Frame(data)>>
             ELSE <<>>)
          \o CopyLines(RestOfBuffer(b))

\* the bytes of the outbound stream: the chunks written, one after the other
RECURSIVE StreamOf(_)
StreamOf(frames) == IF frames = <<>> THEN <<>> ELSE Head(frames) \o StreamOf(Tail(frames))

\* characters of the generated JSON texts
JsonAlphabet == {"[", "]", "{", "}", ",", " ", "\"", "0", "1", "a"}

\* objects with an index key after a plain key, and with a repeated key
ObjectSamples ==
  {<<"{", "\"", "a", "\"", ":", " ", "1", ",", "\"", "1", "\"", ":", "[", " ", "]", "}">>,
   <<"{", "\"", "b", "\"", ":", "1", ",", " ", "\"", "a", "\"", ":", "2", ",", "\"", "b", "\"", ":", "3", "}">>,
   <<"{", "\"", "1", "0", "\"", ":", "\"", "a", "\"", ",", "\"", "9", "\"", ":", "0", ",", "\"", "a", "\"", ":", "{", " ", "}", "}">>}

JsonTexts == ObjectSamples \cup UNION {[1..n -> JsonAlphabet] : n \in 0..MaxJsonLen}

\* one data line per JSON text
InitJson ==
  /\ method = "POST"
  /\ apiKey = "sk-key"
  /\ body = [kind |-> "object", fields |-> [messages |-> "msgs"]]
  /\ InitState
  /\ probe \in {DataPrefix \o t \o <<LF>> : t \in JsonTexts}
  /\ passes = <<>>

\* one pass of the copy loop, over the probe and then over its own output
Reserialize ==
  /\ probe # <<>>
  /\ Len(passes) < MaxPasses
  /\ passes' = Append(passes, StreamOf(CopyLines(IF passes = <<>> THEN probe ELSE passes[Len(passes)])))
  /\ UNCHANGED <<reqVars, handlerVars, writerState, taskVars, probe>>

NextJson == Reserialize

SpecJson == InitJson /\ [][NextJson]_vars

(***************************************************************************)
(* What the upstream has delivered, seen line by line.                     *)
(***************************************************************************)
\* the newline-terminated lines of a text, untrimmed, in order
RECURSIVE SplitLines(_)
SplitLines(text) ==
  LET e == IndexOf(text, LF)
  IN IF e = 0 THEN <<>>
     ELSE <<SubSeq(text, 1, e - 1)>> \o SplitLines(SubSeq(text, e + 1, Len(text)))

\* the complete lines received so far, and those the inner loop has taken
ReceivedLines == SplitLines(received)
ProcessedLines == SubSeq(ReceivedLines, 1, Len(ReceivedLines) - Len(SplitLines(buffer)))

\* the kinds of line
IsSentinelLine(l) ==
  LET t == Trim(l) IN IsDataLine(t) /\ DataOf(t) = Sentinel
IsValidLine(l) ==
  LET t == Trim(l) IN IsDataLine(t) /\ DataOf(t) # Sentinel /\ JSONparse(DataOf(t)).ok
IsMalformedLine(l) ==
  LET t == Trim(l) IN IsDataLine(t) /\ DataOf(t) # Sentinel /\ ~JSONparse(DataOf(t)).ok

\* the frames of the valid lines among ls, in order
RECURSIVE ExpectedFrames(_)
ExpectedFrames(ls) ==
  IF ls = <<>> THEN <<>>
  ELSE LET t == Trim(Head(ls))
       IN (IF IsDataLine(t) /\ DataOf(t) # Sentinel /\ JSONparse(DataOf(t)).ok
             THEN <<Frame(DataOf(t))>>
             ELSE <<>>)
          \o ExpectedFrames(Tail(ls))

\* a is b with some elements left out
RECURSIVE IsSubseq(_, _)
IsSubseq(a, b) ==
  IF a = <<>> THEN TRUE
  ELSE IF b = <<>> THEN FALSE
  ELSE IF Head(a) = Head(b) THEN IsSubseq(Tail(a), Tail(b))
  ELSE IsSubseq(a, Tail(b))

\* the frames the outbound stream holds or is about to take
InFlight == IF taskPc = "write" THEN <<pending>> ELSE <<>>

(***************************************************************************)
(* Claims.                                                                 *)
(***************************************************************************)

\* C1: every payload sent to the upstream has stream = true, whatever the
\* inbound body carried for stream.
C1_StreamForcedTrue ==
  \A i \in 1..Len(calls) : "stream" \in DOMAIN calls[i] /\ calls[i].stream = TrueValue

\* C2: once a write to the outbound stream has raised an error, the stream is
\* aborted with that error and no further write is attempted.
C2_WriteErrorAborts ==
  [][/\ writeErrors' > 0 => abortReason' = "write"
     /\ writeErrors > 0 => attempted' = attempted]_vars

\* C3: the sentinel is never forwarded and does not end the relay: the lines
\* processed so far have produced one write per valid line, those after a
\* sentinel included, and close is only ever called once the upstream read has
\* signalled done.
C3_SentinelDroppedRelayGoesOn ==
  /\ LET ls == ProcessedLines
     IN Len(attempted) = Cardinality({i \in 1..Len(ls) : IsValidLine(ls[i])})
  /\ \A i \in 1..Len(attempted) : attempted[i] # DataPrefix \o Sentinel \o <<LF, LF>>
  /\ closeCalls > 0 => readDone /\ upText = <<>>
  /\ writerState = "closed" => readDone
  /\ (taskPc = "done" /\ ~readFailed) => readDone

C3_Witness ==
  /\ \E i \in 1..Len(ProcessedLines) : \E j \in (i + 1)..Len(ProcessedLines) :
       /\ IsSentinelLine(ProcessedLines[i])
       /\ IsValidLine(ProcessedLines[j])
       /\ written # <<>>
       /\ written[Len(written)] = Frame(DataOf(Trim(ProcessedLines[j])))
  /\ writerState = "open"
  /\ closeCalls = 0

\* C4: a malformed data line is dropped without aborting or closing the
\* stream: the writes attempted are exactly the frames of the valid lines
\* processed so far, in their order, all of them accepted unless a write
\* failed; the stream is aborted only for a failed read or a failed close.
C4_MalformedDropped ==
  /\ attempted = ExpectedFrames(ProcessedLines)
  /\ writeErrors = 0 => written \o InFlight = attempted
  /\ abortReason \in {"none", "read", "close"}
  /\ abortReason = "read" <=> readFailed
  /\ abortReason = "close" => readDone /\ writerState = "errored"
  /\ abortCalls > 0 <=> abortReason # "none"

C4_Witness ==
  /\ Len(ProcessedLines) = 3
  /\ IsValidLine(ProcessedLines[1])
  /\ IsMalformedLine(ProcessedLines[2])
  /\ IsValidLine(ProcessedLines[3])
  /\ ProcessedLines[1] # ProcessedLines[3]
  /\ written = <<Frame(DataOf(Trim(ProcessedLines[1]))), Frame(DataOf(Trim(ProcessedLines[3])))>>
  /\ writerState = "closed"
  /\ abortCalls = 0

\* C5: the frames written are at every moment an order-preserving subsequence
\* of the frames of the complete data lines received so far, and each is one
\* "data: <json>" line followed by a blank line.
C5_OrderPreserved ==
  /\ IsSubseq(written, ExpectedFrames(ReceivedLines))
  /\ \A i \in 1..Len(written) :
       LET f == written[i]
           json == SubSeq(f, Len(DataPrefix) + 1, Len(f) - 2)
       IN /\ StartsWith(f, DataPrefix)
          /\ Len(f) >= Len(DataPrefix) + 3
          /\ f[Len(f)] = LF /\ f[Len(f) - 1] = LF
          /\ \A k \in 1..Len(json) : json[k] # LF
          /\ JSONparse(json).ok

C5_Witness ==
  /\ Len(written) = 2
  /\ written[1] # written[2]
  /\ Len(ExpectedFrames(ReceivedLines)) = 3
  /\ taskPc = "write"
  /\ ~readDone

\* C6: a request whose method is not POST is answered 405 before any other
\* work: the credential is not read, the body is not read, no upstream call
\* is made and the copy task is not started.
C6_NonPost405 ==
  method # "POST" =>
    /\ pc \in {"fetch", "returned"}
    /\ pc = "returned" => response.status = 405
    /\ ~keyRead
    /\ ~bodyRead
    /\ calls = <<>>
    /\ writerState = "none"
    /\ taskPc = "idle"

C6_Witness ==
  /\ method # "POST"
  /\ response.status = 405
  /\ ~Falsy(apiKey)
  /\ body.kind = "object"

\* C7: a POST handled while the credential is absent or empty is answered 401
\* and no upstream call is made, whether or not the body is valid JSON.
C7_NoKey401 ==
  (method = "POST" /\ apiKey \in {Undefined, ""}) =>
    /\ pc \in {"fetch", "returned"}
    /\ pc = "returned" => response.status = 401
    /\ calls = <<>>
    /\ ~bodyRead

C7_Witness ==
  /\ method = "POST"
  /\ apiKey = ""
  /\ body.kind = "object"
  /\ response.status = 401

\* C8: a POST with a credential whose body is not JSON is answered 400 and no
\* upstream call is made.
C8_BadBody400 ==
  (method = "POST" /\ apiKey \notin {Undefined, ""} /\ body.kind = "invalid") =>
    /\ pc \in {"fetch", "json", "returned"}
    /\ pc = "returned" => response.status = 400
    /\ calls = <<>>
    /\ taskPc = "idle"

C8_Witness ==
  /\ body.kind = "invalid"
  /\ bodyRead
  /\ response.status = 400

C10_ErrorsBeforeOrAfterStream ==
  /\ [](response.status \notin {0, 200} =>
          /\ response.status \in {405, 401, 400, 500} \cup ErrorStatuses
          /\ written = <<>>
          /\ attempted = <<>>
          /\ taskPc = "idle")
  /\ []((readFailed \/ writeErrors > 0) =>
          /\ response.status = 200
          /\ writerState \in {"errored", "closed"})
  /\ [][taskPc # "idle" => (response.status = 200 /\ response' = response)]_vars

C10_Witness ==
  /\ readFailed
  /\ written # <<>>
  /\ response.status = 200
  /\ writerState = "errored"

\* no read, write or close has raised an error
NoStreamError == ~readFailed /\ writeErrors = 0 /\ abortReason # "close"

\* C11: once the upstream read has signalled done and no read or write error
\* occurred, the outbound stream is closed, not aborted, every forwarded
\* event was written before the close, and the copy task has terminated.
C11_DoneClosesCleanly ==
  /\ []((readDone /\ NoStreamError) =>
          /\ writerState = "closed"
          /\ closeCalls = 1
          /\ abortCalls = 0
          /\ taskPc = "done"
          /\ pending = <<>>
          /\ written = attempted
          /\ written = ExpectedFrames(ReceivedLines))
  /\ [][closeCalls' # closeCalls =>
          /\ ~readDone /\ readDone'
          /\ taskPc = "read" /\ taskPc' = "done"
          /\ pending = <<>>
          /\ written' = written
          /\ (writeErrors = 0 => written = attempted)]_vars

C11_Witness ==
  /\ readDone
  /\ writerState = "closed"
  /\ Len(written) = 2
  /\ taskPc = "done"
  /\ abortCalls = 0

\* C12: when a read of the upstream body raises an error, the outbound stream
\* is aborted with that error, it is never closed normally, and no write is
\* attempted after the failed read.
C12_ReadErrorAborts ==
  /\ [](readFailed =>
          /\ abortCalls = 1
          /\ abortReason = "read"
          /\ closeCalls = 0
          /\ writerState = "errored"
          /\ taskPc = "done")
  /\ [][readFailed => (attempted' = attempted /\ written' = written /\ closeCalls' = closeCalls)]_vars

C12_Witness ==
  /\ readFailed
  /\ abortReason = "read"
  /\ written # <<>>
  /\ upText # <<>>

\* C13: the payload's model is the inbound model when that is present and
\* not empty, and the fixed default otherwise; no other inbound field has a
\* say in it.
C13_ModelDefaulted ==
  \A i \in 1..Len(calls) :
    /\ "model" \in DOMAIN calls[i]
    /\ calls[i].model =
         IF "model" \in DOMAIN body.fields /\ body.fields.model # ""
           THEN body.fields.model
           ELSE MODEL

C13_Witness ==
  /\ calls # <<>>
  /\ "model" \in DOMAIN body.fields
  /\ body.fields.model = ""
  /\ DOMAIN body.fields = Keys
  /\ calls[1].model = MODEL

\* C14: on the success path the handler has returned the status 200 response
\* in the very step that starts the copy task, whatever the copy task does
\* afterwards: it has returned while no chunk has been delivered, while the
\* upstream has not completed and while the client has taken nothing.
C14_ReturnsBeforeCopy ==
  /\ [](taskPc # "idle" => (pc = "returned" /\ response.status = 200))
  /\ [](response.status = 200 => taskPc # "idle")
  /\ [][taskVars' # taskVars => (pc' = "returned" /\ response'.status = 200)]_vars

C14_Witness ==
  /\ pc = "returned"
  /\ response.status = 200
  /\ taskPc = "read"
  /\ received = <<>>
  /\ upText # <<>>
  /\ written = <<>>
  /\ ~readDone

\* C16: every top-level field of the inbound body other than model and stream
\* is in the payload under the same key with the same value, and the payload
\* has no field besides these, model and stream.
C16_FieldsPassedThrough ==
  \A i \in 1..Len(calls) :
    LET others == DOMAIN body.fields \ {"model", "stream"}
    IN /\ \A k \in others : k \in DOMAIN calls[i] /\ calls[i][k] = body.fields[k]
       /\ DOMAIN calls[i] = others \cup {"model", "stream"}

C16_Witness ==
  /\ calls # <<>>
  /\ DOMAIN body.fields = Keys
  /\ calls[1].temperature = "1"
  /\ calls[1].messages = "msgs"

\* C15: when the upstream call throws, or answers with a success status and
\* no body, the handler returns 500 with the generic message, the copy task
\* is not started and nothing is written to the outbound stream.
C15_TransportError500 ==
  upOutcome \in {"threw", "nobody"} =>
    /\ pc = "returned"
    /\ response = [status |-> 500, body |-> <<"Error making request to OpenRouter">>]
    /\ Len(calls) = 1
    /\ taskPc = "idle"
    /\ attempted = <<>>
    /\ written = <<>>
    /\ writerState = "open"

C15_Witness ==
  /\ upOutcome = "nobody"
  /\ upResp.status = 200
  /\ response.status = 500
  /\ pc = "returned"

\* the text after the last line feed of a text
RECURSIVE LastLineFeed(_, _)
LastLineFeed(text, i) ==
  IF i = 0 \/ text[i] = LF THEN i ELSE LastLineFeed(text, i - 1)

UnterminatedTail(text) == SubSeq(text, LastLineFeed(text, Len(text)) + 1, Len(text))

\* C18: the events written depend only on the concatenation of the chunks
\* read so far, not on where the chunk boundaries fell: whenever the task is
\* at a read, or has ended, the writes attempted are the frames of the valid
\* terminated lines of the text received and the buffer is its unterminated
\* rest, however the text was split.
C18_ChunkingIrrelevant ==
  taskPc \in {"read", "done"} =>
    /\ attempted = ExpectedFrames(SplitLines(received))
    /\ attempted = CopyLines(received)
    /\ buffer = UnterminatedTail(received)
    /\ writeErrors = 0 => written = attempted

C18_Witness ==
  /\ taskPc = "read"
  /\ buffer = <<"d", "a", "t">>
  /\ Len(written) = 1
  /\ Len(ReceivedLines) = 1
  /\ upText # <<>>

\* C19: only newline-terminated lines are forwarded: when the read signals done
\* the text left in the buffer is not written, not even when it is a complete
\* valid data line.
C19_UnterminatedTailDiscarded ==
  /\ [](readDone =>
          /\ taskPc = "done"
          /\ buffer = UnterminatedTail(received)
          /\ LET ls == ReceivedLines
             IN Len(attempted) = Cardinality({i \in 1..Len(ls) : IsValidLine(ls[i])})
          /\ IsValidLine(buffer) =>
               \A i \in 1..Len(attempted) :
                 attempted[i] = Frame(DataOf(Trim(buffer))) =>
                   \E j \in 1..Len(ReceivedLines) :
                     ExpectedFrames(<<ReceivedLines[j]>>) = <<attempted[i]>>)
  /\ [][(~readDone /\ readDone') =>
          (attempted' = attempted /\ written' = written /\ buffer' = buffer)]_vars

C19_Witness ==
  /\ readDone
  /\ buffer = <<"d", "a", "t", "a", ":", " ", "7">>
  /\ IsValidLine(buffer)
  /\ written # <<>>
  /\ writerState = "closed"

\* C20: no write is attempted after close or abort has been called, close is
\* called at most once and abort at most once, and the upstream body is not
\* read again after either call.
C20_NothingAfterCloseOrAbort ==
  /\ [](/\ closeCalls <= 1
        /\ abortCalls <= 1
        /\ (closeCalls + abortCalls > 0) => (taskPc = "done" /\ pending = <<>>))
  /\ [][(closeCalls + abortCalls > 0) =>
          /\ attempted' = attempted
          /\ written' = written
          /\ received' = received
          /\ upText' = upText
          /\ readDone' = readDone
          /\ readFailed' = readFailed
          /\ closeCalls' = closeCalls
          /\ abortCalls' = abortCalls]_vars

C20_Witness ==
  /\ closeCalls = 1
  /\ abortCalls = 1
  /\ writeErrors > 0
  /\ taskPc = "done"

\* C17: re-serialization is idempotent: the relay's own output stream, put
\* through the copy loop again, comes out byte for byte the same.
C17_ReserializeIdempotent ==
  \A p \in 2..Len(passes) : passes[p] = passes[p - 1]

C17_Witness ==
  /\ Len(passes) = 2
  /\ passes[1] # <<>>
  /\ passes[1] # probe \o <<LF>>
  /\ Len(passes[1]) > Len(DataPrefix) + 4

====
